---- MODULE Spec2Model ----
(***************************************************************************)
(* chrome-capture-for-kayo (src/main.js): the per-request stream session,  *)
(* the admission controller (activeStreams / waiters), the page pool       *)
(* (pagesInUse) and the shared browser handle (currentBrowser).            *)
(*                                                                         *)
(* Node runs the handlers on one event loop.  A step of the model is the   *)
(* code that runs between two suspension points of one session: from the   *)
(* resolution of the awaited operation to the next await that waits for an *)
(* external party (browser, timer, another session).  Steps of different   *)
(* sessions interleave freely.  The await of waitForStreamSlot's promise   *)
(* is kept as a suspension point of its own also when the promise is       *)
(* already resolved: the capacity check and the caller's activeStreams++   *)
(* are two steps, between which other sessions' continuations may run.     *)
(***************************************************************************)
EXTENDS Integers, Sequences, FiniteSets, TLC

\* ------------------------------------------------------------------ bounds
\* Requests that may arrive during a run of Spec (sessions 1..NumSessions).
NumSessions == 3
\* Requests that arrive during a run of SpecBusy, where MAX_CONCURRENT_STREAMS
\* further sessions are streaming from the start.
NumWaiting == 2
\* Browser instances that can be connected at a time: every launch uses the
\* one profile directory (userDataDir, line 419).
MaxLaunches == 1
\* Browser instances that can be launched during a run.
MaxInstances == 2
\* Browser instances connected at a time in SpecOverlap, where launches that
\* were started together all resolve.
MaxOverlap == 2
\* Calls of releasePage with the same page in a run of SpecRelease.
MaxReleases == 2
\* img elements in a page, and ancestors of an img below document.body.
MaxImages == 2
MaxDepth == 2

\* ------------------------------------------------------- program constants
MAX_CONCURRENT_STREAMS == 2

Arrivals == 1 .. NumSessions
Streaming == (NumWaiting + 1) .. (NumWaiting + MAX_CONCURRENT_STREAMS)
Sessions == Arrivals \cup (1 .. NumWaiting) \cup Streaming

\* Strings are sequences of character codes.
Key_espn == <<101, 115, 112, 110>>
Key_ESPN == <<69, 83, 80, 78>>
Key_nope == <<110, 111, 112, 101>>

\* Object.keys(CHANNELS)
CHANNELS ==
  { Key_espn,
    <<102, 111, 111, 116, 121>>,            \* footy
    <<99, 114, 105, 99, 107, 101, 116>>,    \* cricket
    <<53, 48, 53>>,                         \* '505'
    <<53, 48, 51>>,                         \* '503'
    <<53, 48, 54>>,                         \* '506'
    <<108, 101, 97, 103, 117, 101>>,        \* league
    <<110, 101, 119, 115>>,                 \* news
    <<114, 97, 99, 105, 110, 103>>,         \* racing
    <<117, 102, 99>>,                       \* ufc
    <<101, 115, 112, 110, 50>>,             \* espn2
    <<53, 48, 55>> }                        \* '507'

\* Mutant: String.prototype.toUpperCase in the route
toUpperCase(str) ==
  [i \in 1 .. Len(str) |->
     IF str[i] >= 97 /\ str[i] <= 122 THEN str[i] - 32 ELSE str[i]]

\* String.prototype.toLowerCase on ASCII
toLowerCase(str) ==
  [i \in 1 .. Len(str) |->
     IF str[i] >= 65 /\ str[i] <= 90 THEN str[i] + 32 ELSE str[i]]

\* :channelName values the model sends
RequestKeys == { Key_espn, Key_ESPN, Key_nope }

NoKey == <<>>

VARIABLES
  outputFormat,    \* argv.outputFormat: "mpegts" | "webm"
  activeStreams,   \* let activeStreams
  waiters,         \* const waiters = []: the onSlot callbacks, by session
  pagesInUse,      \* const pagesInUse = new Set(): pages, by owning session
  currentBrowser,  \* let currentBrowser: 0 is null, else the instance
  launched,        \* browser instances launched so far
  connected,       \* instances whose isConnected() is true
  pc,              \* where each session's handler is suspended
  kind,            \* "none" | "channel" | "generic": the handler running
  channelName,     \* req.params.channelName.toLowerCase()
  browser,         \* acquirePage's local `browser`: 0 before it is obtained
  page,            \* the handler's local `page`: 0 is null
  pageOpen,        \* pages created by browser.newPage() and not closed
  stream,          \* the handler's local `stream`: "none" | "open" | "destroyed"
                   \*   | "destroyFailed" (destroy() threw)
  ffmpeg,          \* the handler's local `ffmpegProcess`: "none" | "running" | "killed"
                   \*   | "killFailed" (kill() threw after setting shuttingDown)
  done,            \* cleanup._done
  counted,         \* cleanup._countedStream
  status,          \* last status the handler set on res (0: none)
  sent,            \* what the handler gave to res.send ("none": nothing)
  cleanupRuns,     \* history: executions of cleanup's body
  slotTaken,       \* history: activeStreams++ executed by the session
  slotReleases,    \* history: slot releases executed by the session's cleanup
  pageCloses,      \* history: page.close() calls on the session's page
  clicks           \* history: page.mouse.click calls on the session's page

vars == << outputFormat, activeStreams, waiters, pagesInUse, currentBrowser, launched,
           connected, pc, kind, channelName, browser, page, pageOpen, stream, ffmpeg,
           done, counted, status, sent, cleanupRuns, slotTaken,
           slotReleases, pageCloses, clicks >>

browserVars == << currentBrowser, launched, connected >>

\* what no handler writes, and the browser
fixedVars == << outputFormat, currentBrowser, launched, connected >>

sessionVars == << kind, channelName, browser, page, stream, ffmpeg, done,
                  counted, status, sent >>
historyVars == << cleanupRuns, slotTaken, slotReleases, pageCloses, clicks >>

Range(q) == { q[i] : i \in 1 .. Len(q) }

\* ------------------------------------------------------ admission controller

\* waitForStreamSlot, line 340: the capacity check
SlotAvailable(n) == n < MAX_CONCURRENT_STREAMS

\* Mutant: waiters.pop() in place of waiters.shift()
notifyPop(q) == [woken |-> q[Len(q)], rest |-> SubSeq(q, 1, Len(q) - 1)]

\* Mutant: notifyStreamSlot runs the first callback and leaves it in the array
notifyPeek(q) == [woken |-> Head(q), rest |-> q]

\* notifyStreamSlot on a non-empty array: waiters.shift() gives the callback
\* that is run and leaves the rest
notifyShift(q) == [woken |-> Head(q), rest |-> Tail(q)]

\* waiters.indexOf(onSlot): 0 stands for -1
RECURSIVE indexOfFrom(_, _, _)
indexOfFrom(q, x, i) ==
  IF i > Len(q) THEN 0
  ELSE IF q[i] = x THEN i
  ELSE indexOfFrom(q, x, i + 1)

indexOf(q, x) == indexOfFrom(q, x, 1)

\* waiters.splice(idx, 1)
splice1(q, idx) ==
  [i \in 1 .. (Len(q) - 1) |-> IF i < idx THEN q[i] ELSE q[i + 1]]

\* Mutant: the timer callback resolves false and leaves waiters alone
timerKeeps(q, s) == q

\* the timer callback of waitForStreamSlot, lines 344-345
timerRemove(q, s) ==
  IF indexOf(q, s) # 0 THEN splice1(q, indexOf(q, s)) ELSE q

\* Mutant: activeStreams-- on every cleanup, without the flag and the guard
countAlwaysDecremented(n, held) == n - 1

\* cleanup, lines 950-952: under if (cleanup._countedStream),
\* if (activeStreams > 0) activeStreams--
countAfterCleanup(n, held) == IF held THEN (IF n > 0 THEN n - 1 ELSE n) ELSE n

\* ---------------------------------------------------------------- cleanup

\* Mutant: cleanup without the _done guard
cleanupNeverSkipped(s) == FALSE

\* cleanup, line 943: if (cleanup._done) return
cleanupSkipped(s) == done[s]

\* Mutant: cleanup without the slot release
cleanupNeverReleases(s) == FALSE

\* cleanup, line 950: if (cleanup._countedStream)
cleanupReleasesSlot(s) == counted[s]

\* releasePage, line 639: if (!page) return
releasePageActs(s) == page[s] # 0

\* An operation on a page succeeds only while the page is open and its browser
\* is connected; on a closed page or a disconnected browser it rejects.
PageUsable(s) == page[s] \in pageOpen /\ browser[s] \in connected

\* Mutant: releasePage without its null check and its try/catch
releasePageUnguarded(pg, inUse, open) ==
  [inUse |-> inUse \ {pg}, open |-> open \ {pg}, closes |-> 1,
   threw |-> pg = 0 \/ pg \notin open]

\* Mutant: releasePage empties the set
releasePageClearsAll(pg, inUse, open) ==
  IF pg = 0
  THEN [inUse |-> inUse, open |-> open, closes |-> 0, threw |-> FALSE]
  ELSE [inUse |-> {}, open |-> open \ {pg}, closes |-> 1, threw |-> FALSE]

\* releasePage(page) with pagesInUse holding inUse and the pages in open not
\* yet closed: the sets after the call, the page.close() calls made, and
\* whether the call rejects.  A null page returns at once (line 639); the
\* page is deleted from pagesInUse when it is there (line 640); page.close()
\* rejects on a page that is closed already and the rejection is swallowed
\* (line 642).
releasePage(pg, inUse, open) ==
  IF pg = 0
  THEN [inUse |-> inUse, open |-> open, closes |-> 0, threw |-> FALSE]
  ELSE [inUse |-> inUse \ {pg}, open |-> open \ {pg}, closes |-> 1,
        threw |-> FALSE]

\* Mutant: the page is released before the slot
cleanupStepsPageFirst(spawned, opened, held, waiting, hasPage) ==
  (IF spawned THEN << "kill" >> ELSE << >>)
  \o (IF opened THEN << "destroy" >> ELSE << >>)
  \o (IF hasPage THEN << "close" >> ELSE << >>)
  \o (IF held THEN << "release" >> ELSE << >>)
  \o (IF held /\ waiting THEN << "wake" >> ELSE << >>)

\* The statements the body of cleanup executes after setting _done, in the
\* order of lines 947-957: ffmpegProcess.kill() if ffmpegProcess, then
\* stream.destroy() if stream, then under the slot flag activeStreams-- and
\* notifyStreamSlot() (which runs a callback if one waits), then
\* releasePage(page).  kill and destroy are each in a try/catch of their own,
\* so an exception in one leaves the statements after it in place.
cleanupSteps(spawned, opened, held, waiting, hasPage) ==
  (IF spawned THEN << "kill" >> ELSE << >>)
  \o (IF opened THEN << "destroy" >> ELSE << >>)
  \o (IF held THEN << "release" >> ELSE << >>)
  \o (IF held /\ waiting THEN << "wake" >> ELSE << >>)
  \o (IF hasPage THEN << "close" >> ELSE << >>)

\* The whole of cleanup(reason) for session s, called where the handler goes on
\* to nextPc (its own pc for an event listener, "returned" for a catch block)
\* the waiters array holds q and the handler's ffmpegProcess is f; killThrows
\* and destroyThrows say whether ffmpegProcess.kill() and stream.destroy()
\* throw.  The body runs to releasePage's page.close() without suspending.
cleanupBody(s, nextPc, q, f, killThrows, destroyThrows) ==
  IF cleanupSkipped(s)
  THEN /\ pc' = [pc EXCEPT ![s] = nextPc]
       /\ waiters' = q
       /\ ffmpeg' = [ffmpeg EXCEPT ![s] = f]
       /\ UNCHANGED << activeStreams, pagesInUse, pageOpen, stream, done,
                       counted, cleanupRuns, slotTaken, slotReleases,
                       pageCloses >>
  ELSE LET steps == Range(cleanupSteps(f = "running", stream[s] = "open",
                                      cleanupReleasesSlot(s), Len(q) > 0,
                                      releasePageActs(s)))
           rel == "release" \in steps
           wake == "wake" \in steps
           rp == releasePage(IF "close" \in steps THEN page[s] ELSE 0,
                             pagesInUse, pageOpen)
       IN /\ done' = [done EXCEPT ![s] = TRUE]
          /\ cleanupRuns' = [cleanupRuns EXCEPT ![s] = @ + 1]
          /\ ffmpeg' = [ffmpeg EXCEPT ![s] =
                          IF "kill" \in steps
                          THEN (IF killThrows THEN "killFailed" ELSE "killed")
                          ELSE f]
          /\ stream' = [stream EXCEPT ![s] =
                          IF "destroy" \in steps
                          THEN (IF destroyThrows THEN "destroyFailed"
                                ELSE "destroyed")
                          ELSE @]
          /\ counted' = [counted EXCEPT ![s] = FALSE]
          /\ activeStreams' = countAfterCleanup(activeStreams, rel)
          /\ slotReleases' = [slotReleases EXCEPT ![s] = IF rel THEN @ + 1 ELSE @]
          /\ waiters' = IF wake THEN notifyShift(q).rest ELSE q
          /\ pc' = [t \in Sessions |->
                      IF t = s THEN nextPc
                      ELSE IF wake /\ t = notifyShift(q).woken THEN "admitted"
                      ELSE pc[t]]
          /\ pagesInUse' = rp.inUse
          /\ pageOpen' = rp.open
          /\ pageCloses' = [pageCloses EXCEPT ![s] = @ + rp.closes]
          /\ UNCHANGED slotTaken

\* cleanup where neither kill() nor destroy() throws
cleanupWith(s, nextPc, q, f) == cleanupBody(s, nextPc, q, f, FALSE, FALSE)

cleanup(s, nextPc) == cleanupWith(s, nextPc, waiters, ffmpeg[s])

\* ------------------------------------------------------------------ browser

\* Mutant: getCurrentBrowser launches on every call
browserNeverReady == FALSE

\* getCurrentBrowser, line 397: the handle is usable as it stands
browserReady == currentBrowser # 0 /\ currentBrowser \in connected

\* ----------------------------------------------------------------- requests

\* A caller resumed by a resolved waitForStreamSlot promise ("admitted") runs
\* as a microtask, before the event loop delivers its next callback: no new
\* request, listener event or timer runs while such a continuation is pending.
\* Continuations of other sessions' awaited operations may have been resolved
\* in the same turn and may run before it.
NoPendingAdmission == \A t \in Sessions : pc[t] # "admitted"

\* Mutant: the route without the 404 branch
channelAlwaysKnown(name) == TRUE

\* app.get('/stream/:channelName'), line 864: if (!channel)
channelKnown(name) == name \in CHANNELS

\* The start of handleChannelStream / handleGenericStream: the cleanup closure
\* and the listeners are set up, getCurrentBrowser() is called and either
\* launches (the handler waits for the launch) or returns the connected handle,
\* in which case acquirePage goes on to setupPage's browser.newPage().
startHandler(s, k, name) ==
  /\ kind' = [kind EXCEPT ![s] = k]
  /\ channelName' = [channelName EXCEPT ![s] = name]
  /\ IF browserReady
     THEN /\ pc' = [pc EXCEPT ![s] = "newPage"]
          /\ browser' = [browser EXCEPT ![s] = currentBrowser]
     ELSE /\ pc' = [pc EXCEPT ![s] = "launching"]
          /\ UNCHANGED browser
  /\ UNCHANGED << activeStreams, waiters, pagesInUse, fixedVars, page,
                  pageOpen, stream, ffmpeg, done, counted, status, sent, historyVars >>

\* GET /stream/<key>
RequestChannel(s, key) ==
  /\ NoPendingAdmission
  /\ pc[s] = "idle"
  /\ s \in Arrivals
  /\ LET name == toLowerCase(key)
     IN IF channelKnown(name)
        THEN startHandler(s, "channel", name)
        ELSE /\ status' = [status EXCEPT ![s] = 404]
             /\ sent' = [sent EXCEPT ![s] = "Channel not found"]
             /\ channelName' = [channelName EXCEPT ![s] = name]
             /\ pc' = [pc EXCEPT ![s] = "returned"]
             /\ UNCHANGED << activeStreams, waiters, pagesInUse, fixedVars,
                             kind, browser, page, pageOpen, stream, ffmpeg,
                             done, counted, historyVars >>

\* GET /stream?url=<u>, or without the parameter
RequestGeneric(s, hasUrl) ==
  /\ NoPendingAdmission
  /\ pc[s] = "idle"
  /\ s \in Arrivals
  /\ IF hasUrl
     THEN startHandler(s, "generic", NoKey)
     ELSE /\ status' = [status EXCEPT ![s] = 400]
          /\ sent' = [sent EXCEPT ![s] = "Missing url parameter"]
          /\ pc' = [pc EXCEPT ![s] = "returned"]
          /\ UNCHANGED << activeStreams, waiters, pagesInUse, fixedVars,
                          kind, channelName, browser, page, pageOpen, stream,
                          ffmpeg, done, counted, historyVars >>

\* launch() resolves: currentBrowser is assigned, the 'close' and
\* 'disconnected' listeners are registered, and acquirePage goes on to
\* setupPage with the handle getCurrentBrowser returns.
launchResolves(s, atATime) ==
  /\ pc[s] = "launching"
  /\ Cardinality(connected) < atATime
  /\ launched < MaxInstances
  /\ launched' = launched + 1
  /\ currentBrowser' = launched + 1
  /\ connected' = connected \cup {launched + 1}
  /\ browser' = [browser EXCEPT ![s] = launched + 1]
  /\ pc' = [pc EXCEPT ![s] = "newPage"]
  /\ UNCHANGED << outputFormat, activeStreams, waiters, pagesInUse, kind,
                  channelName, page, pageOpen, stream, ffmpeg, done, counted,
                  status, sent, historyVars >>

\* launch() resolves for a caller while no other instance is connected.
LaunchOk(s) == launchResolves(s, MaxLaunches)

\* launch() resolves for a caller, be another instance connected or not: the
\* launches of callers that found currentBrowser null together (line 397)
\* each resolve with an instance of their own.
LaunchOverlapping(s) == launchResolves(s, MaxOverlap)

\* The 'disconnected' (and 'close') listener of a browser instance.  Spec and
\* SpecBusy keep the browser up once launched; a crash shows to their
\* sessions as rejecting stages, which StageFails covers.
BrowserDisconnected(b) ==
  /\ b \in connected
  /\ connected' = connected \ {b}
  /\ currentBrowser' = 0
  /\ UNCHANGED << outputFormat, activeStreams, waiters, pagesInUse, launched,
                  pc, sessionVars, pageOpen, historyVars >>

\* setupPage resolves: pagesInUse.add(page), page is assigned and the next
\* stage (navigateAndPrep, or page.goto of the generic handler) starts.
NewPageOk(s) ==
  /\ pc[s] = "newPage"
  /\ browser[s] \in connected
  /\ pagesInUse' = pagesInUse \cup {s}
  /\ pageOpen' = pageOpen \cup {s}
  /\ page' = [page EXCEPT ![s] = s]
  /\ pc' = [pc EXCEPT ![s] = "navigating"]
  /\ UNCHANGED << activeStreams, waiters, fixedVars, kind, channelName,
                  browser, stream, ffmpeg, done, counted, status, sent, historyVars >>

\* lines 1102 and 1215: if (argv.outputFormat === 'mpegts')
spawnsTranscoder == outputFormat = "mpegts"

\* Mutant: every handler asks for the slot before it opens the capture stream
slotAlwaysBeforeCapture(k) == TRUE

\* handleGenericStream awaits waitForStreamSlot (line 1176) before getStream
\* (line 1188); handleChannelStream awaits startCapture (line 1033) before
\* waitForStreamSlot (line 1043).
slotBeforeCapture(k) == k = "generic"

\* Mutant: the failure branches without their return statement
catchFallsThrough(stage) == stage

\* Every failure branch of the handlers ends "await cleanup(...); return"
\* (lines 972-973, 994-995, 1038-1039, 1046-1047, 1062-1063, 1092-1093,
\* 1129-1130): where the handler is after a failure at the given stage.
catchReturns(stage) == "returned"

\* ---------------------------------------------------------- channel resolver

\* An ancestor of an img, as the walk of lines 243-272 sees it: "semantic" is
\* an A, a BUTTON, a role=button or an onclick element with a rectangle of
\* positive size; "pointer" is another element larger than 20 by 20 with
\* cursor: pointer; "plain" is any other, a semantic element with an empty
\* rectangle among them, which the walk passes like the rest.
AncestorKinds == {"plain", "semantic", "pointer"}

\* The chains of ancestors from img.parentElement up to below document.body.
Chains ==
  UNION { [1 .. n -> AncestorKinds] : n \in 0 .. MaxDepth }

\* An img: whether its src contains the slug ("other": it has no src, or one
\* without the slug), and its ancestors; the ancestors of an img without the
\* slug are not looked at (line 238) and are left out.
Images ==
  { [src |-> "other", chain |-> << >>] } \cup [src : {"slug"}, chain : Chains]

\* document.querySelectorAll('img'), in document order.
Doms == UNION { [1 .. n -> Images] : n \in 0 .. MaxImages }

\* page.evaluate returned null.
NoTarget == << >>

\* The least of a non-empty set of numbers.
First(S) == CHOOSE x \in S : \A y \in S : x <= y

\* The walk up from one img: the first semantic ancestor with a rectangle is
\* returned as soon as the walk meets it (lines 247-258); failing that, the
\* first cursor: pointer ancestor (lines 261-281).  The result is the place
\* of the ancestor in the chain, 0 if there is none.
ancestorTarget(chain) ==
  LET sem == { j \in 1 .. Len(chain) : chain[j] = "semantic" }
      ptr == { j \in 1 .. Len(chain) : chain[j] = "pointer" }
  IN IF sem # {} THEN First(sem)
     ELSE IF ptr # {} THEN First(ptr)
     ELSE 0

\* The function given to page.evaluate (lines 234-287): the target of the
\* first img whose src contains the slug and whose walk finds an ancestor,
\* as the pair of the img and the ancestor; null if there is none.
tileTarget(dom) ==
  LET usable == { i \in 1 .. Len(dom) :
                    dom[i].src = "slug" /\ ancestorTarget(dom[i].chain) # 0 }
  IN IF usable = {} THEN NoTarget
     ELSE << First(usable), ancestorTarget(dom[First(usable)].chain) >>

\* tileClickDirectStrategy on a page with the given img elements: the result
\* it returns, the calls of page.mouse.click it made and where it clicked.
tileClickDirectStrategy(dom) ==
  IF tileTarget(dom) = NoTarget
  THEN [success |-> FALSE,
        reason |-> "Channel tile not found in page images.",
        clicks |-> 0, at |-> NoTarget]
  ELSE [success |-> TRUE, reason |-> "", clicks |-> 1, at |-> tileTarget(dom)]

\* Mutant: the resolver gives up when the wait for the image timed out
selectChannelDirectGivesUp(dom, imageAppeared) ==
  IF imageAppeared THEN tileClickDirectStrategy(dom)
  ELSE [success |-> FALSE, reason |-> "Channel image did not appear.",
        clicks |-> 0, at |-> NoTarget]

\* selectChannelDirect (lines 316-322) where waitForChannelSlugImage returned
\* imageAppeared and the page holds dom when the tile is looked for: a false
\* imageAppeared is logged and the strategy runs all the same.
selectChannelDirect(dom, imageAppeared) == tileClickDirectStrategy(dom)

\* What selectChannelDirect can resolve with, less the place of the click.
ResolverResults ==
  { LET r == selectChannelDirect(dom, a)
    IN [success |-> r.success, reason |-> r.reason, clicks |-> r.clicks] :
      dom \in Doms, a \in BOOLEAN }

\* The call of waitForStreamSlot(QUEUE_WAIT_MS) by session s: resolved at once
\* when a slot is available, else the caller's onSlot is pushed.
waitForStreamSlot(s) ==
  IF SlotAvailable(activeStreams)
  THEN /\ pc' = [pc EXCEPT ![s] = "admitted"]
       /\ UNCHANGED waiters
  ELSE /\ pc' = [pc EXCEPT ![s] = "queued"]
       /\ waiters' = Append(waiters, s)

\* Channel handler: navigateAndPrep resolves and startCapture begins.
\* Generic handler: goto and setWindowBounds resolve and the slot is requested.
NavigateOk(s) ==
  /\ pc[s] = "navigating"
  /\ PageUsable(s)
  /\ IF slotBeforeCapture(kind[s])
     THEN waitForStreamSlot(s)
     ELSE /\ pc' = [pc EXCEPT ![s] = "capturing"]
          /\ UNCHANGED waiters
  /\ UNCHANGED << activeStreams, pagesInUse, fixedVars, sessionVars,
                  pageOpen, historyVars >>

\* Channel handler: startCapture resolves, stream is assigned and the slot is
\* requested.  Generic handler: getStream resolves, stream is assigned, the
\* 200 headers are set and the stream is piped (through the transcoder when
\* the output format is mpegts).
CaptureOk(s) ==
  /\ pc[s] = "capturing"
  /\ PageUsable(s)
  /\ stream' = [stream EXCEPT ![s] = "open"]
  /\ IF slotBeforeCapture(kind[s])
     THEN /\ pc' = [pc EXCEPT ![s] = "piping"]
          /\ status' = [status EXCEPT ![s] = 200]
          /\ ffmpeg' = [ffmpeg EXCEPT ![s] =
                          IF spawnsTranscoder THEN "running" ELSE @]
          /\ UNCHANGED waiters
     ELSE /\ waitForStreamSlot(s)
          /\ UNCHANGED << status, ffmpeg >>
  /\ UNCHANGED << activeStreams, pagesInUse, fixedVars, kind, channelName,
                  browser, page, pageOpen, done, counted, sent,
                  historyVars >>

\* Mutant: waitForStreamSlot without its setTimeout
timerNeverArmed(s) == FALSE

\* The timer of the call of waitForStreamSlot by session s is pending: it is
\* set when the call is enqueued (lines 343-347) and cleared by onSlot, which
\* runs when the call is woken (line 350).
timerArmed(s) == pc[s] = "queued"

\* The timer of waitForStreamSlot fires: the callback is removed from waiters,
\* the promise resolves false, the handler answers 429 and calls cleanup.
SlotTimeout(s) ==
  /\ NoPendingAdmission
  /\ timerArmed(s)
  /\ status' = [status EXCEPT ![s] = 429]
  /\ sent' = [sent EXCEPT ![s] = "Too many concurrent streams"]
  /\ cleanupWith(s, catchReturns(pc[s]), timerRemove(waiters, s), ffmpeg[s])
  /\ UNCHANGED << clicks, fixedVars, kind, channelName, browser, page >>

\* The awaited promise of waitForStreamSlot delivers true: activeStreams++,
\* cleanup._countedStream = true, and the next stage starts
\* (selectChannelDirect, or getStream of the generic handler).
SlotTaken(s) ==
  /\ pc[s] = "admitted"
  /\ activeStreams' = activeStreams + 1
  /\ counted' = [counted EXCEPT ![s] = TRUE]
  /\ slotTaken' = [slotTaken EXCEPT ![s] = @ + 1]
  /\ pc' = [pc EXCEPT ![s] = IF slotBeforeCapture(kind[s]) THEN "capturing"
                             ELSE "selecting"]
  /\ UNCHANGED << waiters, pagesInUse, fixedVars, kind, channelName,
                  browser, page, pageOpen, stream, ffmpeg, done, status, sent,
                  cleanupRuns, slotReleases, pageCloses, clicks >>

\* selectChannelDirect resolves with success on some page content and the
\* playback wait starts.
SelectOk(s) ==
  /\ pc[s] = "selecting"
  /\ PageUsable(s)
  /\ \E r \in ResolverResults :
       /\ r.success
       /\ clicks' = [clicks EXCEPT ![s] = @ + r.clicks]
  /\ pc' = [pc EXCEPT ![s] = "verifying"]
  /\ UNCHANGED << activeStreams, waiters, pagesInUse, fixedVars,
                  sessionVars, pageOpen, cleanupRuns, slotTaken,
                  slotReleases, pageCloses >>

\* waitForSelector and waitForFunction resolve; the fullscreen toggle and
\* minimizeWindow start.
PlaybackOk(s) ==
  /\ pc[s] = "verifying"
  /\ PageUsable(s)
  /\ pc' = [pc EXCEPT ![s] = "fullscreen"]
  /\ UNCHANGED << activeStreams, waiters, pagesInUse, fixedVars,
                  sessionVars, pageOpen, historyVars >>

\* The fullscreen block ends (its errors are swallowed): status 200, the
\* headers, the transcoder is spawned when the output format is mpegts, the
\* stream is piped and the handler returns.
PipeOk(s) ==
  /\ pc[s] = "fullscreen"
  /\ status' = [status EXCEPT ![s] = 200]
  /\ ffmpeg' = [ffmpeg EXCEPT ![s] = IF spawnsTranscoder THEN "running" ELSE @]
  /\ pc' = [pc EXCEPT ![s] = "piping"]
  /\ UNCHANGED << activeStreams, waiters, pagesInUse, fixedVars, kind,
                  channelName, browser, page, pageOpen, stream, done, counted,
                  sent, historyVars >>

\* The stages whose rejection a catch block of the handler answers with 500
\* followed by cleanup and return.
FailingStages(k) ==
  IF k = "channel"
  THEN {"launching", "newPage", "navigating", "capturing", "selecting",
        "verifying"}
  ELSE {"launching", "newPage", "navigating", "capturing"}

\* The text the catch block for a rejection of the given stage gives to
\* res.send, without the exception.
catchMessage(k, stage) ==
  IF k = "channel"
  THEN CASE stage \in {"launching", "newPage"} -> "failed to start browser/page: "
         [] stage = "navigating" -> "failed to goto/setup: "
         [] stage = "capturing" -> "failed to start capture: "
         [] OTHER -> "Channel selection error: "
  ELSE CASE stage = "capturing" -> "failed to start stream: "
         [] OTHER -> "failed to goto: "

\* A stage rejects: the catch block sets 500, sends its message, awaits
\* cleanup and returns.
StageFails(s) ==
  /\ pc[s] \in FailingStages(kind[s])
  /\ status' = [status EXCEPT ![s] = 500]
  /\ sent' = [sent EXCEPT ![s] = catchMessage(kind[s], pc[s])]
  /\ cleanup(s, catchReturns(pc[s]))
  /\ UNCHANGED << clicks, fixedVars, kind, channelName, browser, page >>

\* selectChannelDirect resolves with { success: false, reason }: the tile was
\* not found in the page.  The handler sets 500, sends the resolver's reason,
\* awaits cleanup and returns.
SelectFails(s) ==
  /\ pc[s] = "selecting"
  /\ PageUsable(s)
  /\ \E r \in ResolverResults :
       /\ ~r.success
       /\ clicks' = [clicks EXCEPT ![s] = @ + r.clicks]
  /\ status' = [status EXCEPT ![s] = 500]
  /\ sent' = [sent EXCEPT ![s] = "Failed to select channel: reason"]
  /\ cleanup(s, catchReturns(pc[s]))
  /\ UNCHANGED << fixedVars, kind, channelName, browser, page >>

\* The pipe block throws after res.status(200), before the transcoder is
\* assigned to ffmpegProcess or after it: 500, cleanup, return.
PipeFails(s, spawned) ==
  /\ pc[s] = "fullscreen"
  /\ status' = [status EXCEPT ![s] = 500]
  /\ sent' = [sent EXCEPT ![s] = "failed to pipe stream: "]
  /\ cleanupWith(s, catchReturns(pc[s]), waiters,
                 IF spawned /\ spawnsTranscoder THEN "running" ELSE ffmpeg[s])
  /\ UNCHANGED << clicks, fixedVars, kind, channelName, browser, page >>

\* ------------------------------------------------------------- other routes

\* Mutant: ActiveStreams reports the pages in use
statusJsonCountsPages ==
  [ActiveStreams |-> Cardinality(pagesInUse),
   MaxStreams |-> MAX_CONCURRENT_STREAMS]

\* GET /status.json: the body given to res.json in the current state.  The
\* handler reads the two values and writes nothing.
statusJson ==
  [ActiveStreams |-> activeStreams, MaxStreams |-> MAX_CONCURRENT_STREAMS]

\* Object.keys(CHANNELS): the integer-like keys in ascending order, then the
\* other keys in the order the literal lists them.
ObjectKeys ==
  << <<53, 48, 51>>,                         \* '503'
     <<53, 48, 53>>,                         \* '505'
     <<53, 48, 54>>,                         \* '506'
     <<53, 48, 55>>,                         \* '507'
     Key_espn,
     <<102, 111, 111, 116, 121>>,            \* footy
     <<99, 114, 105, 99, 107, 101, 116>>,    \* cricket
     <<108, 101, 97, 103, 117, 101>>,        \* league
     <<110, 101, 119, 115>>,                 \* news
     <<114, 97, 99, 105, 110, 103>>,         \* racing
     <<117, 102, 99>>,                       \* ufc
     <<101, 115, 112, 110, 50>> >>           \* espn2

\* '/stream/'
StreamPrefix == <<47, 115, 116, 114, 101, 97, 109, 47>>

\* GET /lineup.json: one entry per key, in the order of Object.keys.  channel
\* is the key whose CHANNELS entry gives GuideNumber and GuideName, path is
\* the part of URL after protocol and host.
lineupJson ==
  [i \in 1 .. Len(ObjectKeys) |->
     [channel |-> ObjectKeys[i], path |-> StreamPrefix \o ObjectKeys[i]]]

\* The :channelName parameter the route '/stream/:channelName' extracts from
\* a path.
routeParam(path) == SubSeq(path, Len(StreamPrefix) + 1, Len(path))

\* A client requests the URL of entry i of the lineup.
TuneLineupEntry(s, i) == RequestChannel(s, routeParam(lineupJson[i].path))

\* ----------------------------------------------------------- event listeners

\* The listeners exist from the start of the handler on.  Each listener is a
\* call of cleanup.  A call that finds _done set returns at line 943 and
\* changes nothing: it is a stuttering step, which [Next]_vars allows in every
\* state, so the listener actions are written for the calls that get past the
\* guard.  The calls made by the catch blocks (StageFails, SlotTimeout,
\* PipeFails) take both branches, since the handler goes on to return.
HasListeners(s) == kind[s] # "none"

\* req.on('aborted')
ReqAborted(s) ==
  /\ NoPendingAdmission
  /\ HasListeners(s)
  /\ ~cleanupSkipped(s)
  /\ cleanup(s, pc[s])
  /\ UNCHANGED << clicks, fixedVars, kind, channelName, browser, page, status,
                  sent >>

\* res.on('close')
ResClose(s) ==
  /\ NoPendingAdmission
  /\ HasListeners(s)
  /\ ~cleanupSkipped(s)
  /\ cleanup(s, pc[s])
  /\ UNCHANGED << clicks, fixedVars, kind, channelName, browser, page, status,
                  sent >>

\* res.on('close') where ffmpegProcess.kill() or stream.destroy() throws
\* inside cleanup.
ResCloseThrows(s, killThrows, destroyThrows) ==
  /\ NoPendingAdmission
  /\ HasListeners(s)
  /\ ~cleanupSkipped(s)
  /\ killThrows \/ destroyThrows
  /\ killThrows => ffmpeg[s] = "running"
  /\ destroyThrows => stream[s] = "open"
  /\ cleanupBody(s, pc[s], waiters, ffmpeg[s], killThrows, destroyThrows)
  /\ UNCHANGED << clicks, fixedVars, kind, channelName, browser, page, status,
                  sent >>

\* res.on('error')
ResError(s) ==
  /\ NoPendingAdmission
  /\ HasListeners(s)
  /\ ~cleanupSkipped(s)
  /\ cleanup(s, pc[s])
  /\ UNCHANGED << clicks, fixedVars, kind, channelName, browser, page, status,
                  sent >>

\* Mutant: the handlers of the asynchronous errors answer 500
statusSetByAsyncError(s) == 500

\* The capture stream's 'error' handler (lines 1020-1023) and the transcoder's
\* onError (lines 1108-1111) log and call cleanup: res.status is not called.
statusAfterAsyncError(s) == status[s]

\* s.on('error') of the capture stream
StreamError(s) ==
  /\ NoPendingAdmission
  /\ stream[s] = "open"
  /\ ~cleanupSkipped(s)
  /\ cleanup(s, pc[s])
  /\ status' = [status EXCEPT ![s] = statusAfterAsyncError(s)]
  /\ UNCHANGED << clicks, fixedVars, kind, channelName, browser, page, sent >>

\* exit(code, signal) has a code and no signal, or a signal and no code.
NoCode == -1

NoSignal == "null"

\* The events of the subprocess that have a handler calling onError: 'exit'
\* with an exit code or with the signal that ended the process, and 'error'.
TranscoderEvents ==
  { [type |-> "exit", code |-> c, signal |-> NoSignal] : c \in {0, 1} }
  \cup { [type |-> "exit", code |-> NoCode, signal |-> sg] :
           sg \in {"SIGTERM", "SIGKILL"} }
  \cup { [type |-> "error", code |-> NoCode, signal |-> NoSignal] }

\* Mutant: the handlers without their "if (shuttingDown) return"
onErrorIgnoresShutdown(isShuttingDown, ev) ==
  IF ev.type = "error" THEN TRUE
  ELSE IF ev.signal = "SIGTERM" THEN FALSE
  ELSE IF ev.code # NoCode /\ ev.code # 0 THEN TRUE
  ELSE ev.signal # NoSignal

\* Whether the handlers of lines 194-207 call onError for the event ev.
onErrorInvoked(isShuttingDown, ev) ==
  IF isShuttingDown THEN FALSE
  ELSE IF ev.type = "error" THEN TRUE
  ELSE IF ev.signal = "SIGTERM" THEN FALSE
  ELSE IF ev.code # NoCode /\ ev.code # 0 THEN TRUE
  ELSE ev.signal # NoSignal

\* The transcoder's shuttingDown flag: false at the spawn (line 182), set by
\* kill() before it signals the process (line 210), so also by a kill() that
\* throws.
shuttingDown(s) == ffmpeg[s] \in {"killed", "killFailed"}

\* An event of the transcoder of session s for which onError is called; the
\* handler's onError logs and calls cleanup('ffmpeg error') (lines 1108-1111).
\* An event for which onError is not called changes nothing.
FfmpegError(s) ==
  /\ NoPendingAdmission
  /\ ffmpeg[s] # "none"
  /\ \E ev \in TranscoderEvents : onErrorInvoked(shuttingDown(s), ev)
  /\ ~cleanupSkipped(s)
  /\ cleanup(s, pc[s])
  /\ status' = [status EXCEPT ![s] = statusAfterAsyncError(s)]
  /\ UNCHANGED << clicks, fixedVars, kind, channelName, browser, page, sent >>

\* ------------------------------------------------------------ specification

Init ==
  /\ outputFormat \in {"mpegts", "webm"}
  /\ activeStreams = 0
  /\ waiters = <<>>
  /\ pagesInUse = {}
  /\ currentBrowser = 0
  /\ launched = 0
  /\ connected = {}
  /\ pc = [s \in Sessions |-> "idle"]
  /\ kind = [s \in Sessions |-> "none"]
  /\ channelName = [s \in Sessions |-> NoKey]
  /\ browser = [s \in Sessions |-> 0]
  /\ page = [s \in Sessions |-> 0]
  /\ pageOpen = {}
  /\ stream = [s \in Sessions |-> "none"]
  /\ ffmpeg = [s \in Sessions |-> "none"]
  /\ done = [s \in Sessions |-> FALSE]
  /\ counted = [s \in Sessions |-> FALSE]
  /\ status = [s \in Sessions |-> 0]
  /\ sent = [s \in Sessions |-> "none"]
  /\ cleanupRuns = [s \in Sessions |-> 0]
  /\ slotTaken = [s \in Sessions |-> 0]
  /\ slotReleases = [s \in Sessions |-> 0]
  /\ pageCloses = [s \in Sessions |-> 0]
  /\ clicks = [s \in Sessions |-> 0]

\* The steps of the sessions once a browser is up.
SessionStep ==
  \/ \E s \in Sessions, key \in RequestKeys : RequestChannel(s, key)
  \/ \E s \in Sessions, hasUrl \in BOOLEAN : RequestGeneric(s, hasUrl)
  \/ \E s \in Sessions : NewPageOk(s)
  \/ \E s \in Sessions : NavigateOk(s)
  \/ \E s \in Sessions : CaptureOk(s)
  \/ \E s \in Sessions : SlotTimeout(s)
  \/ \E s \in Sessions : SlotTaken(s)
  \/ \E s \in Sessions : SelectOk(s)
  \/ \E s \in Sessions : SelectFails(s)
  \/ \E s \in Sessions : PlaybackOk(s)
  \/ \E s \in Sessions : PipeOk(s)
  \/ \E s \in Sessions : StageFails(s)
  \/ \E s \in Sessions, sp \in BOOLEAN : PipeFails(s, sp)
  \/ \E s \in Sessions : ReqAborted(s)
  \/ \E s \in Sessions : ResClose(s)
  \/ \E s \in Sessions : ResError(s)
  \/ \E s \in Sessions : StreamError(s)
  \/ \E s \in Sessions : FfmpegError(s)

Next ==
  \/ \E s \in Sessions : LaunchOk(s)
  \/ SessionStep

Spec == Init /\ [][Next]_vars

\* The server under load: MAX_CONCURRENT_STREAMS channel sessions have reached
\* piping, holding every slot, and NumWaiting further requests arrive.  The
\* output format is the default (mpegts, line 80) and the browser is up, so
\* that no request launches one.
InitBusy ==
  /\ outputFormat = "mpegts"
  /\ activeStreams = MAX_CONCURRENT_STREAMS
  /\ waiters = <<>>
  /\ pagesInUse = Streaming
  /\ currentBrowser = 1
  /\ launched = 1
  /\ connected = {1}
  /\ pc = [s \in Sessions |-> IF s \in Streaming THEN "piping" ELSE "idle"]
  /\ kind = [s \in Sessions |-> IF s \in Streaming THEN "channel" ELSE "none"]
  /\ channelName = [s \in Sessions |-> IF s \in Streaming THEN Key_espn ELSE NoKey]
  /\ browser = [s \in Sessions |-> IF s \in Streaming THEN 1 ELSE 0]
  /\ page = [s \in Sessions |-> IF s \in Streaming THEN s ELSE 0]
  /\ pageOpen = Streaming
  /\ stream = [s \in Sessions |-> IF s \in Streaming THEN "open" ELSE "none"]
  /\ ffmpeg = [s \in Sessions |->
                 IF s \in Streaming /\ outputFormat = "mpegts" THEN "running"
                 ELSE "none"]
  /\ done = [s \in Sessions |-> FALSE]
  /\ counted = [s \in Sessions |-> s \in Streaming]
  /\ status = [s \in Sessions |-> IF s \in Streaming THEN 200 ELSE 0]
  /\ sent = [s \in Sessions |-> "none"]
  /\ cleanupRuns = [s \in Sessions |-> 0]
  /\ slotTaken = [s \in Sessions |-> IF s \in Streaming THEN 1 ELSE 0]
  /\ slotReleases = [s \in Sessions |-> 0]
  /\ pageCloses = [s \in Sessions |-> 0]
  /\ clicks = [s \in Sessions |-> 0]

SpecBusy == InitBusy /\ [][SessionStep]_vars

\* The server under load where the event loop runs what is due: a timer that
\* is pending fires, and the continuation of a resolved waitForStreamSlot
\* promise, a microtask, runs.  Nothing else is promised: a session that
\* holds a slot may hold it for ever.
SpecBusyFair ==
  /\ SpecBusy
  /\ \A s \in Sessions : WF_vars(SlotTimeout(s)) /\ WF_vars(SlotTaken(s))

\* The server under load, with transcoders and capture streams whose kill()
\* and destroy() may throw.
NextThrows ==
  \/ SessionStep
  \/ \E s \in Sessions, kt, dt \in BOOLEAN : ResCloseThrows(s, kt, dt)

SpecThrows == InitBusy /\ [][NextThrows]_vars

\* The server under load where the clients stay connected: a session ends
\* only with an event of its transcoder.
NextTranscoder ==
  \/ \E s \in Sessions, key \in RequestKeys : RequestChannel(s, key)
  \/ \E s \in Sessions : NewPageOk(s)
  \/ \E s \in Sessions : NavigateOk(s)
  \/ \E s \in Sessions : CaptureOk(s)
  \/ \E s \in Sessions : SlotTaken(s)
  \/ \E s \in Sessions : SelectOk(s)
  \/ \E s \in Sessions : PlaybackOk(s)
  \/ \E s \in Sessions : PipeOk(s)
  \/ \E s \in Sessions : FfmpegError(s)

SpecTranscoder == InitBusy /\ [][NextTranscoder]_vars

\* The browser's life: requests arrive, the browser is launched, used,
\* disconnects and is launched again.
NextBrowser ==
  \/ \E s \in Sessions, key \in RequestKeys : RequestChannel(s, key)
  \/ \E s \in Sessions : LaunchOk(s)
  \/ \E b \in 1 .. MaxInstances : BrowserDisconnected(b)
  \/ \E s \in Sessions : NewPageOk(s)
  \/ \E s \in Sessions : NavigateOk(s)
  \/ \E s \in Sessions : StageFails(s)

SpecBrowser == Init /\ [][NextBrowser]_vars

\* The arguments of releasePage: null or a page.
NoPage == 0

PageArgs == {NoPage} \cup Sessions

\* releasePage(pg) called on its own.
ReleasePageCall(pg) ==
  /\ pg # NoPage => pageCloses[pg] < MaxReleases
  /\ ~releasePage(pg, pagesInUse, pageOpen).threw
  /\ pagesInUse' = releasePage(pg, pagesInUse, pageOpen).inUse
  /\ pageOpen' = releasePage(pg, pagesInUse, pageOpen).open
  /\ pageCloses' = [x \in Sessions |->
                      IF x = pg
                      THEN pageCloses[x]
                             + releasePage(pg, pagesInUse, pageOpen).closes
                      ELSE pageCloses[x]]
  /\ UNCHANGED << activeStreams, waiters, fixedVars, pc, sessionVars,
                  cleanupRuns, slotTaken, slotReleases, clicks >>

\* releasePage on every pool: the browser is up, any of the pages is in
\* pagesInUse, and any of them is open, be it in the set (a page in use) or
\* not (a page setupPage made and acquirePage has not added yet); a page of
\* the set that is not open was closed with its tab.
InitRelease ==
  /\ outputFormat = "mpegts"
  /\ activeStreams = 0
  /\ waiters = <<>>
  /\ pagesInUse \in SUBSET Sessions
  /\ pageOpen \in SUBSET Sessions
  /\ currentBrowser = 1
  /\ launched = 1
  /\ connected = {1}
  /\ pc = [s \in Sessions |-> IF s \in pagesInUse THEN "navigating" ELSE "idle"]
  /\ kind = [s \in Sessions |-> IF s \in pagesInUse THEN "channel" ELSE "none"]
  /\ channelName = [s \in Sessions |->
                      IF s \in pagesInUse THEN Key_espn ELSE NoKey]
  /\ browser = [s \in Sessions |-> IF s \in pagesInUse THEN 1 ELSE 0]
  /\ page = [s \in Sessions |-> IF s \in pagesInUse THEN s ELSE 0]
  /\ stream = [s \in Sessions |-> "none"]
  /\ ffmpeg = [s \in Sessions |-> "none"]
  /\ done = [s \in Sessions |-> FALSE]
  /\ counted = [s \in Sessions |-> FALSE]
  /\ status = [s \in Sessions |-> 0]
  /\ sent = [s \in Sessions |-> "none"]
  /\ cleanupRuns = [s \in Sessions |-> 0]
  /\ slotTaken = [s \in Sessions |-> 0]
  /\ slotReleases = [s \in Sessions |-> 0]
  /\ pageCloses = [s \in Sessions |-> 0]
  /\ clicks = [s \in Sessions |-> 0]

NextRelease == \E pg \in PageArgs : ReleasePageCall(pg)

SpecRelease == InitRelease /\ [][NextRelease]_vars

\* The browser's life where launches started together all resolve.
NextOverlap ==
  \/ \E s \in Sessions, key \in RequestKeys : RequestChannel(s, key)
  \/ \E s \in Sessions : LaunchOverlapping(s)
  \/ \E b \in 1 .. MaxInstances : BrowserDisconnected(b)
  \/ \E s \in Sessions : NewPageOk(s)
  \/ \E s \in Sessions : NavigateOk(s)
  \/ \E s \in Sessions : StageFails(s)

SpecOverlap == Init /\ [][NextOverlap]_vars

\* The clients tune the entries of /lineup.json.
NextLineup ==
  \E s \in Sessions, i \in 1 .. Len(lineupJson) : TuneLineupEntry(s, i)

SpecLineup == Init /\ [][NextLineup]_vars

\* -------------------------------------------------------------------- claims

\* Sessions that were told they are admitted and have not released the slot.
InFlight == { s \in Sessions : pc[s] = "admitted" \/ counted[s] }

\* C1 (as claimed; the code violates it): activeStreams never exceeds
\* MAX_CONCURRENT_STREAMS, with the capacity check and the later
\* activeStreams++ taken as two steps.
C1_WithinCapacity == activeStreams <= MAX_CONCURRENT_STREAMS

\* C2 (as claimed; the code violates it): a session that executed
\* activeStreams++ and whose cleanup has run has released exactly one slot,
\* also when the trigger fired before the slot was acquired.
C2_SlotReleasedOnce ==
  \A s \in Sessions :
    (slotTaken[s] > 0 /\ done[s]) => slotReleases[s] = 1

\* C3 (as claimed; the code violates it): a session that owns a page and whose
\* cleanup has run has had that page removed from pagesInUse and closed
\* exactly once, also when the trigger fired while acquirePage was pending.
C3_PageReleasedOnce ==
  \A s \in Sessions :
    (page[s] # 0 /\ done[s]) => (pageCloses[s] = 1 /\ page[s] \notin pagesInUse)

\* C4: per session the body of cleanup runs at most once, however many
\* triggers invoke it: it has run exactly when _done is set, and the session
\* never releases a second slot or closes its page a second time.
C4_CleanupBodyOnce ==
  \A s \in Sessions :
    /\ cleanupRuns[s] = (IF done[s] THEN 1 ELSE 0)
    /\ slotReleases[s] <= 1
    /\ pageCloses[s] <= 1

\* C4 witness: a catch block invoked cleanup (status 500, handler returned)
\* for a session whose body had already run while page was still null: the
\* second invocation left the page alone.
C4_SecondInvocationSkipped ==
  \E s \in Sessions :
    /\ pc[s] = "returned" /\ status[s] = 500
    /\ done[s] /\ cleanupRuns[s] = 1
    /\ page[s] # 0 /\ pageCloses[s] = 0

\* C5: activeStreams is never negative.
C5_NeverNegative == activeStreams >= 0

\* C5 witness: a slot was released and the counter is back at zero.
C5_ReleasedToZero ==
  \E s \in Sessions : slotReleases[s] = 1 /\ activeStreams = 0

\* q2 keeps the callbacks of q in their order, and what it adds comes after them.
OrderKept(q, q2) ==
  \A i, j \in 1 .. Len(q2) :
    (i < j /\ q2[j] \in Range(q)) =>
      (q2[i] \in Range(q) /\ indexOf(q, q2[i]) < indexOf(q, q2[j]))

\* C6: waiters holds exactly the callers still waiting, each once; a step
\* that wakes a queued caller wakes the first of waiters, which by the order
\* kept in every step (a push goes last, a timeout removal and a wake-up keep
\* the others' order) is the one queued longest.
C6_WakesLongestWaiting ==
  /\ [](/\ Range(waiters) = { s \in Sessions : pc[s] = "queued" }
        /\ Cardinality(Range(waiters)) = Len(waiters))
  /\ [][/\ \A t \in Sessions :
             (pc[t] = "queued" /\ pc'[t] = "admitted") =>
               (t = Head(waiters) /\ waiters' = Tail(waiters))
        /\ OrderKept(waiters, waiters')]_vars

\* C6 witness: a streaming session released its slot with two callers queued;
\* one was woken and the other is the whole of waiters.
C6_WokenAheadOfLater ==
  \E s, t \in 1 .. NumWaiting, h \in Streaming :
    /\ s # t
    /\ slotReleases[h] = 1 /\ activeStreams = MAX_CONCURRENT_STREAMS - 1
    /\ pc[s] = "admitted" /\ slotTaken[s] = 0
    /\ waiters = << t >>

\* C7 (as claimed; the code violates it): a caller is enqueued only when
\* MAX_CONCURRENT_STREAMS sessions are in flight, and a request that asks for
\* a slot while MAX_CONCURRENT_STREAMS admitted sessions are in flight is not
\* admitted immediately.
C7_FurtherRequestWaits ==
  [][\A s \in Sessions :
       /\ (pc[s] \notin {"admitted", "queued"} /\ pc'[s] = "admitted") =>
            Cardinality(InFlight) < MAX_CONCURRENT_STREAMS
       /\ (pc[s] # "queued" /\ pc'[s] = "queued") =>
            Cardinality(InFlight) >= MAX_CONCURRENT_STREAMS]_vars

\* C8 (as claimed; the code violates it): a session whose admission wait
\* times out is answered 429, never held a slot, leaves activeStreams and
\* every other caller alone, and ends with its page released and its capture
\* stream destroyed.
C8_TimeoutRejectedCleanly ==
  [][\A s \in Sessions :
       (pc[s] = "queued" /\ pc'[s] = "returned") =>
         /\ status'[s] = 429
         /\ activeStreams' = activeStreams
         /\ slotTaken'[s] = 0 /\ ~counted'[s]
         /\ \A t \in Sessions \ {s} : pc'[t] = pc[t]
         /\ done'[s]
         /\ s \notin pagesInUse'
         /\ stream'[s] # "open"]_vars

\* A /stream/<key> request whose lower-cased key is no key of CHANNELS.
UnknownKey(name) == name # NoKey /\ name \notin CHANNELS

C10_CloseUndoesAdmission ==
  [][\A s \in Sessions :
       (pc[s] = "piping" /\ ~done[s] /\ done'[s]) =>
         /\ slotTaken[s] = 1 /\ slotReleases'[s] = 1
         /\ activeStreams' = activeStreams - 1
         /\ ~counted'[s]
         /\ page[s] # 0 /\ page[s] \notin pagesInUse'
         /\ pageCloses'[s] = 1]_vars

\* C10 witness: one streaming session had left, a new request was admitted
\* with the counter at MAX_CONCURRENT_STREAMS - 1, reached piping with 200 and
\* was closed: the counter is back at that value and its page is gone.
C10_ClosedAfterPiping ==
  \E s \in 1 .. NumWaiting, h1, h2 \in Streaming :
    /\ h1 # h2
    /\ slotReleases[h1] = 1 /\ counted[h2]
    /\ pc[s] = "piping" /\ status[s] = 200 /\ done[s]
    /\ slotTaken[s] = 1 /\ slotReleases[s] = 1 /\ pageCloses[s] = 1
    /\ page[s] \notin pagesInUse
    /\ \A t \in (1 .. NumWaiting) \ {s} : slotTaken[t] = 0
    /\ activeStreams = MAX_CONCURRENT_STREAMS - 1

\* Sessions whose slot flag cleanup._countedStream is true.
SlotFlagged == { s \in Sessions : counted[s] }

\* C11: the ActiveStreams value served by /status.json equals the number of
\* sessions whose slot flag is true, and MaxStreams equals
\* MAX_CONCURRENT_STREAMS, in every reachable state.
C11_StatusCountsHeldSlots ==
  /\ statusJson.ActiveStreams = Cardinality(SlotFlagged)
  /\ statusJson.MaxStreams = MAX_CONCURRENT_STREAMS

\* C11 witness: a streaming session has released its slot, and a session
\* whose cleanup ran before its admission holds a flag that is still counted.
C11_LeakedSlotCounted ==
  \E s \in 1 .. NumWaiting, h \in Streaming :
    /\ slotReleases[h] = 1 /\ ~counted[h]
    /\ done[s] /\ counted[s]
    /\ statusJson.ActiveStreams >= 1

\* C12 (as claimed; the code violates it): when the resolver returns failure
\* while the session holds a slot, the session answers 500 with the resolver's
\* reason and returns without a second selection, and the step releases the
\* held slot, wakes the first of waiters and releases the page.
C12_ResolverFailureReleases ==
  [][\A s \in Sessions :
       (pc[s] = "selecting" /\ counted[s]
        /\ sent'[s] = "Failed to select channel: reason") =>
         /\ status'[s] = 500 /\ pc'[s] = "returned"
         /\ ~counted'[s]
         /\ slotReleases'[s] = slotReleases[s] + 1
         /\ activeStreams' = activeStreams - 1
         /\ (waiters # << >> =>
               /\ pc'[Head(waiters)] = "admitted"
               /\ waiters' = Tail(waiters))
         /\ page[s] \notin pagesInUse' /\ page[s] \notin pageOpen']_vars

\* The step in which session s calls waitForStreamSlot.
RequestsSlot(s) ==
  pc[s] \notin {"admitted", "queued"} /\ pc'[s] \in {"admitted", "queued"}

\* C13 (as claimed; the code violates it): in the legacy handler as in the
\* channel handler, the admission slot is requested with the page acquired
\* and navigated and the capture stream already started.
C13_CaptureBeforeSlot ==
  [][\A s \in Sessions :
       RequestsSlot(s) =>
         /\ page'[s] # 0
         /\ pc[s] \in {"navigating", "capturing"}
         /\ stream'[s] # "none"]_vars

\* C14: a step that is the capture stream's 'error' handler or the
\* transcoder's onError runs the session's cleanup and leaves the response
\* status and what was sent as they were, before the 200 headers as after.
C14_AsyncErrorKeepsStatus ==
  [][\A s \in Sessions :
       (StreamError(s) \/ FfmpegError(s)) =>
         /\ status'[s] = status[s]
         /\ sent'[s] = sent[s]
         /\ done'[s]]_vars

\* C14 witness: a streaming session was cleaned up after its 200 headers,
\* its transcoder killed and its stream destroyed, and a session that has
\* sent nothing was cleaned up with its capture stream open; neither handler
\* has returned.
C14_ErrorsBeforeAndAfterHeaders ==
  \E h \in Streaming, s \in 1 .. NumWaiting :
    /\ pc[h] = "piping" /\ done[h] /\ status[h] = 200
    /\ ffmpeg[h] = "killed" /\ stream[h] = "destroyed"
    /\ pc[s] \in {"queued", "selecting", "verifying", "fullscreen"}
    /\ done[s] /\ status[s] = 0 /\ sent[s] = "none"
    /\ stream[s] = "destroyed"

\* C15: /lineup.json has exactly one entry per key of CHANNELS; the path of
\* every entry is /stream/<key> and the route, which lower-cases the
\* parameter, resolves it to the entry's own channel; no request of a lineup
\* URL is answered 404.
C15_LineupUrlsResolve ==
  /\ Len(lineupJson) = Cardinality(CHANNELS)
  /\ { lineupJson[i].channel : i \in 1 .. Len(lineupJson) } = CHANNELS
  /\ \A i \in 1 .. Len(lineupJson) :
       /\ lineupJson[i].path = StreamPrefix \o lineupJson[i].channel
       /\ channelKnown(toLowerCase(routeParam(lineupJson[i].path)))
       /\ toLowerCase(routeParam(lineupJson[i].path)) = lineupJson[i].channel
  /\ \A s \in Sessions :
       /\ status[s] # 404
       /\ pc[s] # "idle" => (kind[s] = "channel" /\ channelName[s] \in CHANNELS)

\* C15 witness: the URLs of the first and the last lineup entry were requested
\* and each started a channel session for its own key.
C15_LineupEntriesTuned ==
  \E s, t \in Sessions :
    /\ kind[s] = "channel" /\ channelName[s] = lineupJson[1].channel
    /\ kind[t] = "channel"
    /\ channelName[t] = lineupJson[Len(lineupJson)].channel
    /\ status[s] = 0 /\ status[t] = 0

\* C16: a call of waitForStreamSlot admits at once, without enqueuing, iff
\* activeStreams < MAX_CONCURRENT_STREAMS at the call, and otherwise appends
\* the caller to waiters; when the timer fires first the call gives false
\* (429, no slot taken) and the caller's callback leaves waiters, so that no
\* returned caller is in waiters and a wake-up goes to a caller still waiting.
C16_AdmitsIffBelowCapacity ==
  /\ [](\A s \in Sessions : pc[s] # "queued" => s \notin Range(waiters))
  /\ [][\A s \in Sessions :
          /\ RequestsSlot(s) =>
               IF activeStreams < MAX_CONCURRENT_STREAMS
               THEN pc'[s] = "admitted" /\ waiters' = waiters
               ELSE pc'[s] = "queued" /\ waiters' = Append(waiters, s)
          /\ (pc[s] = "queued" /\ pc'[s] = "returned") =>
               /\ status'[s] = 429 /\ slotTaken'[s] = slotTaken[s]
               /\ s \in Range(waiters) /\ s \notin Range(waiters')
               /\ Len(waiters') = Len(waiters) - 1
          /\ (pc[s] = "queued" /\ pc'[s] = "admitted") =>
               /\ s = Head(waiters)
               /\ status[s] # 429]_vars

\* C16 witness: with every slot held two callers were enqueued; one timed out
\* (429), a streaming session released its slot, and the wake-up went to the
\* other caller, leaving waiters empty.
C16_WakeUpSkipsTimedOut ==
  \E s, t \in 1 .. NumWaiting, h \in Streaming :
    /\ s # t
    /\ pc[s] = "returned" /\ status[s] = 429 /\ slotTaken[s] = 0
    /\ slotReleases[h] = 1
    /\ pc[t] = "admitted" /\ stream[t] = "open"
    /\ waiters = << >>

\* C17 (as claimed; the code violates it): once the body of a session's
\* cleanup has run, the session makes no forward transition: it adds no page
\* to pagesInUse, opens no capture stream, is neither enqueued nor admitted,
\* runs no activeStreams++ and spawns no transcoder.
C17_NoForwardAfterCleanup ==
  [][\A s \in Sessions :
       done[s] =>
         /\ page'[s] = page[s]
         /\ s \in pagesInUse' => s \in pagesInUse
         /\ stream'[s] = "open" => stream[s] = "open"
         /\ pc'[s] = "queued" => pc[s] = "queued"
         /\ pc'[s] = "admitted" => pc[s] = "admitted"
         /\ slotTaken'[s] = slotTaken[s]
         /\ ffmpeg'[s] = "running" => ffmpeg[s] = "running"]_vars

\* C18 (as claimed; the code violates it): every transcoder a session spawns
\* is reached by the kill step of the session's cleanup.  The body of cleanup
\* runs at most once (C4), so a transcoder that runs in a session whose
\* cleanup has run is never sent the signal: no such state is reachable.
C18_SpawnedIsKilled ==
  \A s \in Sessions : done[s] => ffmpeg[s] # "running"

\* Callers that were told they are admitted (the capacity check passed, or a
\* release woke them) and have not yet run activeStreams++.
ToldAdmitted == { s \in Sessions : pc[s] = "admitted" }

\* C19 (as claimed; the code violates it): no suspension point separates the
\* admission decision from the increment, so that no other session is
\* admitted on the same free slot: the slots counted and the admissions not
\* yet counted together never exceed MAX_CONCURRENT_STREAMS.
C19_AdmissionNotShared ==
  activeStreams + Cardinality(ToldAdmitted) <= MAX_CONCURRENT_STREAMS

\* The order of the stages of a channel session: each pair is a stage and the
\* stage that follows it.
ChannelStageOrder ==
  { <<"idle", "launching">>, <<"idle", "newPage">>,
    <<"launching", "newPage">>, <<"newPage", "navigating">>,
    <<"navigating", "capturing">>,
    <<"capturing", "queued">>, <<"capturing", "admitted">>,
    <<"queued", "admitted">>, <<"admitted", "selecting">>,
    <<"selecting", "verifying">>, <<"verifying", "fullscreen">>,
    <<"fullscreen", "piping">> }

\* C20: a channel session moves through page acquired, navigated, capture
\* started, slot acquired, channel selected, playback verified, piping in
\* this order or returns: the slot is requested only with the capture stream
\* opened, the resolver is invoked only with the slot taken, and status 200
\* is set only by the step that follows the playback verification.
C20_ChannelStagesInOrder ==
  /\ [](\A s \in Sessions :
          kind[s] = "channel" =>
            /\ pc[s] \in {"queued", "admitted"} =>
                 (page[s] # 0 /\ stream[s] # "none")
            /\ pc[s] \in {"selecting", "verifying", "fullscreen", "piping"} =>
                 (slotTaken[s] = 1 /\ page[s] # 0 /\ stream[s] # "none")
            /\ status[s] = 200 => pc[s] = "piping")
  /\ [][\A s \in Sessions :
          kind'[s] = "channel" =>
            /\ pc'[s] # pc[s] =>
                 (pc'[s] = "returned" \/ <<pc[s], pc'[s]>> \in ChannelStageOrder)
            /\ RequestsSlot(s) => (pc[s] = "capturing" /\ stream'[s] = "open")
            /\ (pc[s] # "selecting" /\ pc'[s] = "selecting") =>
                 (counted'[s] /\ slotTaken'[s] = 1)
            /\ (status[s] # 200 /\ status'[s] = 200) =>
                 (pc[s] = "fullscreen" /\ pc'[s] = "piping")]_vars

\* C20 witness: a channel request that arrived with every slot held has been
\* through the queue and every stage and is piping with status 200.
C20_QueuedSessionPiping ==
  \E s \in 1 .. NumWaiting, h \in Streaming :
    /\ slotReleases[h] = 1
    /\ kind[s] = "channel" /\ pc[s] = "piping" /\ status[s] = 200
    /\ ~done[s] /\ counted[s] /\ slotTaken[s] = 1
    /\ stream[s] = "open" /\ ffmpeg[s] = "running" /\ page[s] \in pagesInUse

\* The step in which a stage of session s fails on its own: the handler sets
\* the status of a failure.
StageFailure(s) == status'[s] # status[s] /\ status'[s] \in {429, 500}

\* C21: when a stage of a session fails on its own, the handler has invoked
\* cleanup and returned in the same step, with status 429 for the admission
\* timeout and 500 for every other stage; a handler that has returned starts
\* no later stage.
C21_FailureCleansUpAndReturns ==
  [][\A s \in Sessions :
       /\ StageFailure(s) =>
            /\ pc[s] \in FailingStages(kind[s]) \cup {"queued", "fullscreen"}
            /\ pc'[s] = "returned"
            /\ done'[s] /\ cleanupRuns'[s] = 1
            /\ status'[s] = (IF pc[s] = "queued" THEN 429 ELSE 500)
            /\ sent'[s] # "none"
       /\ pc[s] = "returned" =>
            /\ pc'[s] = "returned"
            /\ page'[s] = page[s] /\ stream'[s] = stream[s]
            /\ slotTaken'[s] = slotTaken[s] /\ status'[s] = status[s]
            /\ ffmpeg'[s] # "running" \/ ffmpeg[s] = "running"]_vars

\* C21 witness: one request timed out in the queue and returned with 429;
\* another failed in the selection and playback block, returned with 500,
\* and its cleanup released its slot and its page.
C21_TimeoutAndStageFailure ==
  \E s, t \in 1 .. NumWaiting :
    /\ pc[s] = "returned" /\ status[s] = 429 /\ done[s]
    /\ pc[t] = "returned" /\ status[t] = 500
    /\ sent[t] = "Channel selection error: "
    /\ slotTaken[t] = 1 /\ slotReleases[t] = 1 /\ pageCloses[t] = 1

\* The place of each statement in the order the claim gives.
StepRank(x) ==
  CASE x = "kill" -> 1 [] x = "destroy" -> 2 [] x = "release" -> 3
    [] x = "wake" -> 4 [] x = "close" -> 5

\* The statements the cleanup of session s would execute in this state.
StepsNow(s) ==
  cleanupSteps(ffmpeg[s] = "running", stream[s] = "open", counted[s],
               Len(waiters) > 0, page[s] # 0)

\* C22: the body of cleanup kills the transcoder if one was spawned, then
\* destroys the capture stream if one was opened, then releases the slot and
\* wakes the first waiter if the slot flag is set, then releases the page;
\* the slot release and the page release happen also in a step in which
\* kill() or destroy() threw.
C22_CleanupStepsInOrder ==
  /\ [](\A s \in Sessions :
          /\ \A i, j \in 1 .. Len(StepsNow(s)) :
               i < j => StepRank(StepsNow(s)[i]) < StepRank(StepsNow(s)[j])
          /\ (ffmpeg[s] = "running") = ("kill" \in Range(StepsNow(s)))
          /\ (stream[s] = "open") = ("destroy" \in Range(StepsNow(s)))
          /\ counted[s] = ("release" \in Range(StepsNow(s)))
          /\ (page[s] # 0) = ("close" \in Range(StepsNow(s))))
  /\ [][\A s \in Sessions :
          (~done[s] /\ done'[s]) =>
            /\ ffmpeg[s] = "running" => ffmpeg'[s] \in {"killed", "killFailed"}
            /\ stream[s] = "open" =>
                 stream'[s] \in {"destroyed", "destroyFailed"}
            /\ counted[s] =>
                 /\ ~counted'[s] /\ activeStreams' = activeStreams - 1
                 /\ slotReleases'[s] = slotReleases[s] + 1
                 /\ \A t \in Sessions \ {s} :
                      (pc[t] = "queued" /\ t = Head(waiters)) =>
                        pc'[t] = "admitted"
            /\ page[s] # 0 =>
                 /\ page[s] \notin pagesInUse' /\ page[s] \notin pageOpen'
                 /\ pageCloses'[s] = pageCloses[s] + 1]_vars

\* C22 witness: the cleanup of a streaming session ran with kill() and
\* destroy() both throwing; its slot was released, the waiting caller was
\* woken and its page was released.
C22_ReleasedThoughKillThrew ==
  \E h \in Streaming, t \in 1 .. NumWaiting :
    /\ ffmpeg[h] = "killFailed" /\ stream[h] = "destroyFailed"
    /\ done[h] /\ slotReleases[h] = 1 /\ pageCloses[h] = 1
    /\ page[h] \notin pagesInUse
    /\ pc[t] = "admitted" /\ stream[t] = "open" /\ ~done[t]
    /\ activeStreams = MAX_CONCURRENT_STREAMS - 1

\* C23: once kill() was called on a transcoder no event of the subprocess
\* invokes onError; before kill(), an exit with SIGTERM is not reported, and
\* an exit with a non-zero code or with another signal is reported and the
\* report runs the session's cleanup, which kills the transcoder.
C23_OnErrorOnlyBeforeKill ==
  /\ [](\A s \in Sessions, ev \in TranscoderEvents :
          /\ shuttingDown(s) => ~onErrorInvoked(shuttingDown(s), ev)
          /\ (ffmpeg[s] = "running" /\ ev.type = "exit") =>
               /\ ev.signal = "SIGTERM" => ~onErrorInvoked(shuttingDown(s), ev)
               /\ (ev.code \notin {NoCode, 0}
                     \/ ev.signal \notin {NoSignal, "SIGTERM"}) =>
                    onErrorInvoked(shuttingDown(s), ev))
  /\ [][\A s \in Sessions :
          /\ FfmpegError(s) =>
               /\ ffmpeg[s] = "running" /\ ffmpeg'[s] = "killed"
               /\ ~done[s] /\ done'[s] /\ cleanupRuns'[s] = cleanupRuns[s] + 1
          /\ shuttingDown(s) =>
               /\ shuttingDown(s)'
               /\ cleanupRuns'[s] = cleanupRuns[s]
               /\ slotReleases'[s] = slotReleases[s]]_vars

\* C23 witness: with the clients connected, the transcoder of a streaming
\* session reported an exit, the cleanup it triggered called kill() and
\* released the slot, and the request that waited for the slot is piping
\* with a transcoder of its own, on which kill() was not called.
C23_ReportedExitCleanedUp ==
  \E h \in Streaming, t \in 1 .. NumWaiting :
    /\ shuttingDown(h) /\ done[h] /\ cleanupRuns[h] = 1
    /\ slotReleases[h] = 1 /\ status[h] = 200
    /\ pc[t] = "piping" /\ ffmpeg[t] = "running" /\ ~shuttingDown(t)

\* Callers of getCurrentBrowser that wait for their launch() to resolve.
Launching == { s \in Sessions : pc[s] = "launching" }

\* C24 (as claimed; the code violates it): the launch of the browser is
\* single-flight: at most one caller of getCurrentBrowser has a launch in
\* flight at a time.
C24_OneLaunchInFlight == Cardinality(Launching) <= 1

\* C25: getCurrentBrowser returns the handle in currentBrowser and launches
\* nothing when the handle is set and connected; the 'disconnected' listener
\* clears the handle; a call that finds the handle cleared launches, and the
\* launch assigns a new connected instance to currentBrowser and returns it.
C25_ReuseOrRelaunch ==
  [][/\ \A s \in Sessions :
          /\ (pc[s] = "idle" /\ pc'[s] \notin {"idle", "returned"}) =>
               /\ UNCHANGED browserVars
               /\ IF currentBrowser # 0 /\ currentBrowser \in connected
                  THEN pc'[s] = "newPage" /\ browser'[s] = currentBrowser
                  ELSE pc'[s] = "launching" /\ browser'[s] = 0
          /\ (pc[s] = "launching" /\ pc'[s] = "newPage") =>
               /\ launched' = launched + 1
               /\ currentBrowser' \notin 0 .. launched
               /\ currentBrowser' \in connected'
               /\ browser'[s] = currentBrowser'
     /\ \A b \in connected : b \notin connected' => currentBrowser' = 0]_vars

\* C25 witness: a request launched the first instance, which disconnected;
\* the next request launched the second, and a third request was given the
\* second instance without a launch.
C25_SecondInstanceShared ==
  \E s, t, u \in Sessions :
    /\ browser[s] = 1 /\ 1 \notin connected
    /\ t # u /\ browser[t] = 2 /\ browser[u] = 2
    /\ launched = 2 /\ currentBrowser = 2 /\ 2 \in connected
    /\ page[t] # 0 /\ page[u] # 0

\* C26: releasePage completes normally for every argument on every pool,
\* null, a page that is not in pagesInUse and a page that is closed among
\* them, also when repeated; after a call pagesInUse holds every page it
\* held before but the one given.
C26_ReleasePageTotal ==
  /\ [](\A pg \in PageArgs : ~releasePage(pg, pagesInUse, pageOpen).threw)
  /\ [][\A pg \in PageArgs :
          ReleasePageCall(pg) =>
            /\ pg \notin pagesInUse'
            /\ pagesInUse' = pagesInUse \ {pg}
            /\ pageOpen' = pageOpen \ {pg}]_vars

\* C26 witness: releasePage was called twice with a page that was in
\* pagesInUse, and twice with a page that never was; two other pages are in
\* the set as before, one of them closed.
C26_RepeatedRelease ==
  \E a, b, c, d \in Sessions :
    /\ page[a] = a /\ pageCloses[a] = MaxReleases /\ a \notin pagesInUse
    /\ page[b] = 0 /\ pageCloses[b] = MaxReleases
    /\ c # d /\ {c, d} \subseteq pagesInUse /\ pageCloses[c] = 0
    /\ pageCloses[d] = 0 /\ c \in pageOpen /\ d \notin pageOpen

\* The step in which the body of the cleanup of session s runs.
CleanupRan(s) == cleanupRuns'[s] # cleanupRuns[s]

HasSlugImage(dom) == \E i \in 1 .. Len(dom) : dom[i].src = "slug"

\* On every page, whether the preliminary wait found the image or timed
\* out: the resolver succeeds exactly when a matching image yields a target;
\* it clicks once, at that target, when it succeeds; it returns a failure
\* with a reason and without a click when it does not; the result of the
\* wait does not change what it returns.
ResolverAsClaimed ==
  \A dom \in Doms, a \in BOOLEAN :
    LET r == selectChannelDirect(dom, a)
    IN /\ r.success = (tileTarget(dom) # NoTarget)
       /\ r.success => (r.clicks = 1 /\ r.at = tileTarget(dom))
       /\ ~r.success => (r.clicks = 0 /\ r.reason # "")
       /\ ~HasSlugImage(dom) => ~r.success
       /\ r = selectChannelDirect(dom, ~a)

\* C28: the resolver issues a click only when it returns success, and
\* returns a failure with a reason and no click when no image with the slug
\* yields a target, also when the preliminary wait timed out, which changes
\* no result; a session's page is clicked in the step in which its resolver
\* succeeds and in no other.
C28_ClickOnlyOnSuccess ==
  /\ []ResolverAsClaimed
  /\ [][\A s \in Sessions :
          /\ clicks'[s] # clicks[s] =>
               /\ pc[s] = "selecting" /\ pc'[s] = "verifying"
               /\ clicks'[s] = clicks[s] + 1
          /\ (pc[s] = "selecting" /\ pc'[s] = "verifying") =>
               clicks'[s] = clicks[s] + 1
          /\ (pc[s] = "selecting" /\ pc'[s] = "returned") =>
               /\ clicks'[s] = clicks[s]
               /\ status'[s] = 500 /\ sent'[s] # "none"]_vars

\* C28 witness: the resolver of one session succeeded with a click and the
\* session went on to the playback wait; the resolver of another returned a
\* failure, the session answered 500 with the reason and its page was not
\* clicked.
C28_ClickedAndNotClicked ==
  \E s, f \in Sessions :
    /\ clicks[s] = 1 /\ pc[s] \in {"verifying", "fullscreen", "piping"}
    /\ slotReleases[s] = 0 /\ cleanupRuns[s] = 0
    /\ clicks[f] = 0 /\ pc[f] = "returned" /\ status[f] = 500
    /\ sent[f] = "Failed to select channel: reason"
    /\ slotTaken[f] = 1 /\ cleanupRuns[f] = 1

\* C29 (as claimed; the code violates it): a slot release does not hand its
\* wake-up to a session whose cleanup has run: no queued session with _done
\* set is woken.
C29_WakeUpGoesToLiveWaiter ==
  [][\A s \in Sessions :
       (pc[s] = "queued" /\ pc'[s] = "admitted") => ~done[s]]_vars

\* How often the callback of session s is in the array q.
Occurrences(q, s) == Cardinality({ i \in 1 .. Len(q) : q[i] = s })

\* C30: a call of waitForStreamSlot that was enqueued is resolved once, with
\* true by a release or with false by its timer, and with the step its
\* callback leaves waiters for good; the call that got false never goes on
\* as admitted, the call that got true is never answered 429; waiters holds
\* the callback of every unresolved call once and no other.
C30_ResolvedExactlyOnce ==
  /\ [](\A s \in Sessions :
          /\ Occurrences(waiters, s) = (IF pc[s] = "queued" THEN 1 ELSE 0)
          /\ status[s] = 429 => (pc[s] = "returned" /\ slotTaken[s] = 0)
          /\ slotTaken[s] > 0 => status[s] # 429)
  /\ [][\A s \in Sessions :
          /\ (pc[s] = "queued" /\ pc'[s] # "queued") =>
               /\ Occurrences(waiters', s) = 0
               /\ \/ /\ pc'[s] = "admitted"
                     /\ status'[s] = status[s] /\ status'[s] # 429
                     /\ activeStreams' = activeStreams - 1
                  \/ /\ pc'[s] = "returned"
                     /\ status'[s] = 429
                     /\ activeStreams' = activeStreams
          /\ (pc[s] # "queued" /\ pc'[s] = "queued") =>
               /\ RequestsSlot(s)
               /\ slotTaken[s] = 0 /\ status[s] = 0
               /\ waiters' = Append(waiters, s)
          /\ (pc[s] = "admitted" /\ pc'[s] # "admitted") =>
               (slotTaken'[s] = 1 /\ counted'[s])]_vars

\* C30 witness: two calls were enqueued with every slot held; a release
\* resolved one with true and its caller took the slot and went on; the
\* timer resolved the other with false and its caller answered 429;
\* waiters is empty.
C30_OneTrueOneFalse ==
  \E s, f \in 1 .. NumWaiting, h \in Streaming :
    /\ slotReleases[h] = 1
    /\ pc[s] \in {"selecting", "verifying", "fullscreen", "piping"}
    /\ slotTaken[s] = 1 /\ counted[s] /\ ~done[s]
    /\ pc[f] = "returned" /\ status[f] = 429 /\ slotTaken[f] = 0
    /\ Len(waiters) = 0

\* C31: every call of waitForStreamSlot resolves: a caller that is enqueued
\* is in time woken or timed out, whatever the other sessions do, also when
\* no slot is ever released.
C31_EveryCallResolves ==
  \A s \in Sessions : (pc[s] = "queued") ~> (pc[s] # "queued")

\* C31 witness: no session has released a slot, every slot is held, and a
\* call that was enqueued has been resolved by its timer.
C31_TimedOutWithoutRelease ==
  \E s \in 1 .. NumWaiting :
    /\ \A h \in Sessions : slotReleases[h] = 0
    /\ activeStreams = MAX_CONCURRENT_STREAMS
    /\ \A h \in Streaming : ~done[h] /\ counted[h]
    /\ pc[s] = "returned" /\ status[s] = 429 /\ stream[s] = "destroyed"

\* C32 (as claimed; the code violates it): the 'disconnected' or 'close'
\* event of an instance that is not the one in currentBrowser leaves
\* currentBrowser as it is: a connected current browser is not dropped
\* because an older instance went away.
C32_SupersededEventIgnored ==
  [][\A b \in connected :
       (b \notin connected' /\ b # currentBrowser) =>
         currentBrowser' = currentBrowser]_vars

====
